---- MODULE Spec2Model ----
(***************************************************************************)
(* Model of the image service: four Lambda handlers (upload_images,        *)
(* s3_listener, list_images, delete_images) over one DynamoDB table and    *)
(* one S3 bucket.                                                          *)
(*                                                                         *)
(* Text values (user_id, image_id, filename, object keys) are sequences of *)
(* one-character strings, so that splitting, URL-unescaping and substring  *)
(* matching are computed character by character.  Python's None is the     *)
(* value None below; a missing dictionary entry is a field that is not in  *)
(* the DOMAIN of the record.                                               *)
(***************************************************************************)
EXTENDS Integers, Sequences, FiniteSets, TLC

VARIABLES table, objects, urls, last

vars == <<table, objects, urls, last>>

(***************************************************************************)
(* Text helpers                                                            *)
(***************************************************************************)

\* Python's None for text-valued entries (no text is a one-symbol sequence
\* whose symbol is longer than a character).
None == <<"None">>

\* Python truthiness of an optional text: None and "" are falsy.
Truthy(x) == x # None /\ x # <<>>

\* Index of the first occurrence of character c in s, 0 when there is none.
RECURSIVE IndexFrom(_, _, _)
IndexFrom(s, c, i) ==
    IF i > Len(s) THEN 0
    ELSE IF s[i] = c THEN i
    ELSE IndexFrom(s, c, i + 1)

IndexOf(s, c) == IndexFrom(s, c, 1)

\* s.replace(a, b) for single characters.
Replace(s, a, b) == [i \in 1..Len(s) |-> IF s[i] = a THEN b ELSE s[i]]

\* Python's  sub in s  for texts.
Contains(s, sub) ==
    \E i \in 0..(Len(s) - Len(sub)) : SubSeq(s, i + 1, i + Len(sub)) = sub

\* Printable ASCII, code 32 (space) first.
Ascii ==
    << " ", "!", "\"", "#", "$", "%", "&", "'", "(", ")", "*", "+", ",", "-",
       ".", "/", "0", "1", "2", "3", "4", "5", "6", "7", "8", "9", ":", ";",
       "<", "=", ">", "?", "@", "A", "B", "C", "D", "E", "F", "G", "H", "I",
       "J", "K", "L", "M", "N", "O", "P", "Q", "R", "S", "T", "U", "V", "W",
       "X", "Y", "Z", "[", "\\", "]", "^", "_", "0x60", "a", "b", "c", "d", "e",
       "f", "g", "h", "i", "j", "k", "l", "m", "n", "o", "p", "q", "r", "s",
       "t", "u", "v", "w", "x", "y", "z", "{", "|", "}", "~" >>

HexDigits == <<"0", "1", "2", "3", "4", "5", "6", "7", "8", "9",
               "A", "B", "C", "D", "E", "F">>

LowerHex == <<"a", "b", "c", "d", "e", "f">>

IsHex(c) ==
    \/ \E i \in 1..Len(HexDigits) : HexDigits[i] = c
    \/ \E i \in 1..Len(LowerHex) : LowerHex[i] = c

HexVal(c) ==
    IF \E i \in 1..Len(HexDigits) : HexDigits[i] = c
    THEN (CHOOSE i \in 1..Len(HexDigits) : HexDigits[i] = c) - 1
    ELSE (CHOOSE i \in 1..Len(LowerHex) : LowerHex[i] = c) + 9

\* The character a decoded byte stands for.  A byte of 128 or more that is
\* not part of a well-formed UTF-8 sequence decodes to U+FFFD (errors =
\* "replace"); control bytes keep their code.
ByteChar(b) ==
    IF b >= 128 THEN "U+FFFD"
    ELSE IF b = 127 THEN "0x7F"
    ELSE IF b >= 32 THEN Ascii[b - 31]
    ELSE <<"0x00", "0x01", "0x02", "0x03", "0x04", "0x05", "0x06", "0x07",
           "0x08", "0x09", "0x0A", "0x0B", "0x0C", "0x0D", "0x0E", "0x0F",
           "0x10", "0x11", "0x12", "0x13", "0x14", "0x15", "0x16", "0x17",
           "0x18", "0x19", "0x1A", "0x1B", "0x1C", "0x1D", "0x1E", "0x1F">>[b + 1]

\* urllib.parse.unquote: every '%' followed by two hex digits becomes the
\* byte they name, any other '%' stays.
RECURSIVE Unquote(_)
Unquote(s) ==
    IF s = <<>> THEN <<>>
    ELSE IF s[1] = "%" /\ Len(s) >= 3 /\ IsHex(s[2]) /\ IsHex(s[3])
         THEN <<ByteChar(16 * HexVal(s[2]) + HexVal(s[3]))>>
              \o Unquote(SubSeq(s, 4, Len(s)))
         ELSE <<s[1]>> \o Unquote(Tail(s))

\* urllib.parse.unquote_plus: '+' becomes a space, then unquote.
unquote_plus(s) == Unquote(Replace(s, "+", " "))

(***************************************************************************)
(* Item key codec                                                          *)
(***************************************************************************)

\* upload_images: obj_key = f"{user_id}/{image_id}_{filename}"
obj_key(user_id, image_id, filename) ==
    user_id \o <<"/">> \o image_id \o <<"_">> \o filename

\* Index of the last occurrence of character c in s, 0 when there is none.
LastIndexOf(s, c) ==
    IF \E i \in 1..Len(s) : s[i] = c
    THEN CHOOSE i \in 1..Len(s) : s[i] = c /\ \A j \in (i + 1)..Len(s) : s[j] # c
    ELSE 0

\* _parse_s3_key with the tail split at its last '_' (rsplit).
parse_s3_key_rsplit(s3_key) ==
    IF ~Truthy(s3_key) THEN <<None, None>>
    ELSE LET k == unquote_plus(s3_key)
             p == IndexOf(k, "/")
         IN IF p = 0 THEN <<None, None>>
            ELSE LET user_id == SubSeq(k, 1, p - 1)
                     tail == SubSeq(k, p + 1, Len(k))
                     q == LastIndexOf(tail, "_")
                 IN <<user_id, IF q = 0 THEN None ELSE SubSeq(tail, 1, q - 1)>>

\* s3_listener._parse_s3_key: (user_id, image_id), either of them None.
parse_s3_key(s3_key) ==
    IF ~Truthy(s3_key) THEN <<None, None>>
    ELSE LET k == unquote_plus(s3_key)
             p == IndexOf(k, "/")
         IN IF p = 0 THEN <<None, None>>
            ELSE LET user_id == SubSeq(k, 1, p - 1)
                     tail == SubSeq(k, p + 1, Len(k))
                     q == IndexOf(tail, "_")
                 IN <<user_id, IF q = 0 THEN None ELSE SubSeq(tail, 1, q - 1)>>

(***************************************************************************)
(* Configuration and inputs                                                *)
(***************************************************************************)

BUCKET_NAME == "image-service-root"

\* Lifetime of a presigned URL, in seconds.
PRESIGN_EXP == 900

\* Bounds of the model.
MaxUploads == 1
MaxEvents == 2

\* Attribute of a DynamoDB item or entry of a dict; Python's d.get(k).
Get(d, k) == IF DOMAIN d # {} /\ k \in DOMAIN d THEN d[k] ELSE None

\* d.get(k, default)
GetOr(d, k, default) == IF DOMAIN d # {} /\ k \in DOMAIN d THEN d[k] ELSE default

\* The item with attribute k set to v (added when missing).
SetAttr(d, k, v) ==
    [a \in (DOMAIN d) \cup {k} |-> IF a = k THEN v ELSE d[a]]

\* Values str(uuid.uuid4()) is drawn from: texts over [0-9a-f-].
Uuids == {<<HexDigits[n + 1]>> : n \in 1..MaxUploads}

\* Image ids of requests and events: the generated ones and one that was
\* never generated.
ImageIds == Uuids \cup {<<"9">>}

\* Values int(time.time()) is drawn from.
Times == {1700000000}

UserIdInputs == {<<"a">>, <<"b", "/">>}
FilenameInputs == {<<"f", "_">>}
ContentTypeInputs == {"image/png"}

\* The table: a function from the primary key <<user_id, image_id>> to the
\* item stored under it, an AttributeValue map ([S |-> text], [N |-> number]).
HasItem(t, user_id, image_id) == <<user_id, image_id>> \in DOMAIN t

PutItem(t, item) ==
    [k \in (DOMAIN t) \cup {<<item.user_id.S, item.image_id.S>>} |->
        IF k = <<item.user_id.S, item.image_id.S>> THEN item ELSE t[k]]

DeleteItem(t, user_id, image_id) ==
    [k \in (DOMAIN t) \ {<<user_id, image_id>>} |-> t[k]]

\* DynamoDB UpdateItem "SET #s = :st" without a condition: sets the attribute
\* on the item with that key, creating the item when there is none.
UpdateStatus(t, user_id, image_id, st) ==
    IF HasItem(t, user_id, image_id)
    THEN [t EXCEPT ![<<user_id, image_id>>] = SetAttr(@, "status", [S |-> st])]
    ELSE PutItem(t, [user_id |-> [S |-> user_id], image_id |-> [S |-> image_id],
                     status |-> [S |-> st]])

\* aws_clients._convert_decimals on a number read from the table: the table
\* holds integers only, and an integral Decimal becomes an int.
convert_decimals(v) == v

\* aws_clients.deserialize_item: the plain dict of an AttributeValue map.
deserialize_item(item) ==
    [a \in DOMAIN item |->
        IF "S" \in DOMAIN item[a] THEN item[a].S ELSE convert_decimals(item[a].N)]

(***************************************************************************)
(* Request events                                                          *)
(***************************************************************************)

\* Marks a field the request does not carry.
Absent == <<"absent">>

EmptyDict == <<>>

\* The payload dict with the fields that are not Absent ("absent" for the
\* content type, which is an atom).
UploadPayload(u, f, c) ==
    [a \in (IF u = Absent THEN {} ELSE {"user_id"})
           \cup (IF f = Absent THEN {} ELSE {"filename"})
           \cup (IF c = "absent" THEN {} ELSE {"content_type"}) |->
        CASE a = "user_id" -> u
          [] a = "filename" -> f
          [] a = "content_type" -> c]

\* event["body"] as the handlers see it: missing (kind "absent"), the empty
\* string (kind "empty"), a JSON text of an object (kind "json") or an object
\* (kind "dict"); payload is the object.
UploadEvents ==
    {[kind |-> "absent", payload |-> EmptyDict],
     [kind |-> "empty", payload |-> EmptyDict],
     [kind |-> "dict", payload |-> UploadPayload(<<"a">>, <<"f", "_">>, "image/png")],
     [kind |-> "dict", payload |-> UploadPayload(Absent, <<"f", "_">>, "absent")]}
    \cup {[kind |-> "json", payload |-> UploadPayload(u, f, c)] :
            u \in UserIdInputs, f \in FilenameInputs, c \in {"absent"}}
    \cup {[kind |-> "json", payload |-> UploadPayload(u, f, c)] :
            u \in {<<"a">>}, f \in FilenameInputs, c \in ContentTypeInputs}
    \cup {[kind |-> "json", payload |-> UploadPayload(u, f, "absent")] :
            u \in {Absent, <<>>}, f \in {<<"f", "_">>, Absent}}
    \cup {[kind |-> "json", payload |-> UploadPayload(<<"a">>, f, "absent")] :
            f \in {<<>>, Absent}}

\* respond(status, body)
respond(status, body) == [statusCode |-> status, body |-> body]

(***************************************************************************)
(* upload_images.handler                                                   *)
(***************************************************************************)

\* uuid4 returns a value no earlier call returned and no stored key holds.
FreshUuid(image_id) ==
    /\ image_id \in Uuids
    /\ \A u \in urls : u.image_id # image_id
    /\ \A k \in DOMAIN table : k[2] # image_id

\* UploadItem with the status of a finished upload.
UploadItemUploaded(user_id, image_id, filename, content_type, now) ==
    [user_id |-> [S |-> user_id],
     image_id |-> [S |-> image_id],
     filename |-> [S |-> filename],
     s3_key |-> [S |-> obj_key(user_id, image_id, filename)],
     bucket |-> [S |-> BUCKET_NAME],
     content_type |-> [S |-> content_type],
     status |-> [S |-> "UPLOADED"],
     created_at |-> [N |-> now]]

\* The item the handler writes.
UploadItem(user_id, image_id, filename, content_type, now) ==
    [user_id |-> [S |-> user_id],
     image_id |-> [S |-> image_id],
     filename |-> [S |-> filename],
     s3_key |-> [S |-> obj_key(user_id, image_id, filename)],
     bucket |-> [S |-> BUCKET_NAME],
     content_type |-> [S |-> content_type],
     status |-> [S |-> "PENDING_UPLOAD"],
     created_at |-> [N |-> now]]

\* The outcome of one invocation: the response, the calls made to S3 and
\* DynamoDB, and the table and presigned URLs after it.  fails holds the
\* numbers of the calls that raise: generate_presigned_url is call 1 and
\* put_item call 2.
upload_handler(ev, image_id, now, fails) ==
    IF ev.kind = "empty"
    THEN \* json.loads("") raises
         [resp |-> respond(500, [error |-> "JSONDecodeError"]),
          calls |-> <<>>, table |-> table, urls |-> urls]
    ELSE
    LET payload == IF ev.kind = "absent" THEN EmptyDict ELSE ev.payload
        user_id == Get(payload, "user_id")
        filename == Get(payload, "filename")
        content_type == GetOr(payload, "content_type", "application/octet-stream")
    IN IF ~Truthy(user_id) \/ ~Truthy(filename)
       THEN [resp |-> respond(400, [error |-> "user_id and filename are required"]),
             calls |-> <<>>, table |-> table, urls |-> urls]
       ELSE
       LET s3_ok == 1 \notin fails
           ddb_ok == 2 \notin fails
           key == obj_key(user_id, image_id, filename)
           presign == [api |-> "generate_presigned_url", method |-> "put_object",
                       key |-> key, ok |-> s3_ok]
           item == UploadItem(user_id, image_id, filename, content_type, now)
           put == [api |-> "put_item", key |-> <<user_id, image_id>>, ok |-> ddb_ok]
       IN IF ~s3_ok
          THEN [resp |-> respond(500, [error |-> "S3 error"]),
                calls |-> <<presign>>, table |-> table, urls |-> urls]
          ELSE IF ~ddb_ok
          THEN [resp |-> respond(500, [error |-> "DynamoDB error"]),
                calls |-> <<presign, put>>, table |-> table, urls |-> urls]
          ELSE [resp |-> respond(200, [upload_url |-> <<"PUT", key>>,
                                       bucket |-> BUCKET_NAME,
                                       key |-> key,
                                       expires_in |-> PRESIGN_EXP,
                                       image_id |-> image_id]),
                calls |-> <<presign, put>>,
                table |-> PutItem(table, item),
                urls |-> urls \cup {[user_id |-> user_id, image_id |-> image_id,
                                     key |-> key]}]

Upload ==
    /\ Cardinality(urls) < MaxUploads
    /\ \E ev \in UploadEvents, image_id \in Uuids, now \in Times :
          /\ FreshUuid(image_id)
          /\ \E fails \in SUBSET (1..Len(upload_handler(ev, image_id, now, {}).calls)) :
                LET r == upload_handler(ev, image_id, now, fails)
                IN /\ table' = r.table
                   /\ urls' = r.urls
                   /\ last' = [op |-> "upload", event |-> ev, resp |-> r.resp,
                               calls |-> r.calls]
          /\ UNCHANGED objects

\* A client uses a presigned PUT URL the service returned: the object is
\* stored under the URL's key.
ClientPut ==
    /\ \E u \in urls :
          /\ u.key \notin objects
          /\ objects' = objects \cup {u.key}
    /\ last' = [op |-> "client_put"]
    /\ UNCHANGED <<table, urls>>

(***************************************************************************)
(* s3_listener.handler                                                     *)
(***************************************************************************)

\* Keys of S3 events: the keys of the URLs the service can hand out, a
\* well-formed key of an object that was not uploaded through the service,
\* and a text that is not a key of the scheme.
ForeignKeys == {<<"a", "/", "9", "_", "f">>, <<"x">>}

ServiceKeys ==
    {obj_key(u, i, f) : u \in UserIdInputs, i \in Uuids, f \in FilenameInputs}

\* _parse_s3_key of each event key of the model (computed once).
ParsedKey == [k \in ServiceKeys \cup ForeignKeys |-> parse_s3_key(k)]

\* A nested S3 record: kind "s3" carries an object key; kind "malformed" is a
\* record the handler's field accesses raise on (such as  "s3": null).
S3Records ==
    {[kind |-> "s3", key |-> k] : k \in ServiceKeys \cup ForeignKeys}
    \cup {[kind |-> "malformed"]}

RECURSIVE SeqsUpTo(_, _)
SeqsUpTo(S, n) ==
    IF n = 0 THEN {<<>>}
    ELSE LET shorter == SeqsUpTo(S, n - 1)
         IN shorter \cup {Append(q, x) : q \in {r \in shorter : Len(r) = n - 1}, x \in S}

\* An SQS record: kind "body" carries the nested S3 records of its body;
\* kind "badbody" is a body json.loads raises on.
SqsRecords ==
    {[kind |-> "body", Records |-> rs] : rs \in SeqsUpTo(S3Records, MaxEvents) \ {<<>>}}
    \cup {[kind |-> "badbody"]}

Weight(rec) == IF rec.kind = "body" THEN Len(rec.Records) ELSE 1

\* event["Records"]: batches of at most MaxEvents nested records in all
\* (a record whose body does not parse counts as one).
RECURSIVE BatchesWithin(_)
BatchesWithin(w) ==
    {<<>>} \cup
    UNION {{<<rec>> \o b : b \in BatchesWithin(w - Weight(rec))} :
             rec \in {r \in SqsRecords : Weight(r) <= w}}

Batches == BatchesWithin(MaxEvents)

\* The object keys the n-th SQS record of a batch names, and the batch.
RecordKeys(records, n) ==
    IF records[n].kind = "body"
    THEN {records[n].Records[m].key :
            m \in {m \in 1..Len(records[n].Records) :
                     records[n].Records[m].kind = "s3"}}
    ELSE {}

BatchKeys(records) == UNION {RecordKeys(records, n) : n \in 1..Len(records)}

\* _update_ddb_status reporting success without writing the status.
update_ddb_status_nowrite(t, user_id, image_id, ok) ==
    [ok |-> ok,
     table |-> t,
     call |-> [api |-> "update_item", key |-> <<user_id, image_id>>,
               fault |-> ~ok, ok |-> ok]]

\* _update_ddb_status with the update conditioned on the item's existence
\* (attribute_exists): the call is rejected when there is no item.
update_ddb_status_guarded(t, user_id, image_id, ok) ==
    [ok |-> ok /\ HasItem(t, user_id, image_id),
     table |-> IF ok /\ HasItem(t, user_id, image_id)
               THEN UpdateStatus(t, user_id, image_id, "UPLOADED") ELSE t,
     call |-> [api |-> "update_item", key |-> <<user_id, image_id>>,
               fault |-> ~ok, ok |-> ok /\ HasItem(t, user_id, image_id)]]

\* _update_ddb_status: the update_item call; ok says whether it returns or
\* raises (caught: the function then returns False).
update_ddb_status(t, user_id, image_id, ok) ==
    [ok |-> ok,
     table |-> IF ok THEN UpdateStatus(t, user_id, image_id, "UPLOADED") ELSE t,
     call |-> [api |-> "update_item", key |-> <<user_id, image_id>>,
               fault |-> ~ok, ok |-> ok]]

\* The inner loop over the nested records of one SQS record, from the n-th
\* on.  st holds the table, the processed list and the calls so far; fails
\* holds the numbers of the update_item calls that raise.  A malformed record
\* raises out of the loop into the handler of the enclosing try.
RECURSIVE s3rec_loop(_, _, _, _)
s3rec_loop(s3recs, n, st, fails) ==
    IF n > Len(s3recs) THEN st
    ELSE LET s3rec == s3recs[n] IN
         IF s3rec.kind = "malformed"
         THEN [st EXCEPT !.processed = Append(@, [error |-> "AttributeError"])]
         ELSE LET key == s3rec.key
                  parsed == ParsedKey[key]
                  user_id == parsed[1]
                  image_id == parsed[2]
              IN IF ~Truthy(user_id) \/ ~Truthy(image_id)
                 THEN s3rec_loop(s3recs, n + 1,
                        [st EXCEPT !.processed =
                            Append(@, [key |-> key, status |-> "skipped",
                                       reason |-> "parse_failed"])],
                        fails)
                 ELSE LET u == update_ddb_status(st.table, user_id, image_id,
                                                 (Len(st.calls) + 1) \notin fails)
                      IN s3rec_loop(s3recs, n + 1,
                            [table |-> u.table,
                             processed |-> Append(st.processed,
                                [user_id |-> user_id, image_id |-> image_id,
                                 s3_key |-> key, ddb_updated |-> u.ok]),
                             calls |-> Append(st.calls, u.call)],
                            fails)

\* The outer loop over the SQS records, from the n-th on.
RECURSIVE rec_loop(_, _, _, _)
rec_loop(records, n, st, fails) ==
    IF n > Len(records) THEN st
    ELSE LET rec == records[n] IN
         IF rec.kind = "badbody"
         THEN rec_loop(records, n + 1,
                [st EXCEPT !.processed = Append(@, [error |-> "JSONDecodeError"])],
                fails)
         ELSE rec_loop(records, n + 1, s3rec_loop(rec.Records, 1, st, fails), fails)

listener_handler(records, fails) ==
    LET st == rec_loop(records, 1,
                       [table |-> table, processed |-> <<>>, calls |-> <<>>], fails)
    IN [resp |-> respond(200, [processed |-> st.processed]),
        calls |-> st.calls, table |-> st.table]

\* The number of update_item calls a batch leads to (it does not depend on
\* the table).
UpdateCount(records) ==
    Len(rec_loop(records, 1,
                 [table |-> EmptyDict, processed |-> <<>>, calls |-> <<>>], {}).calls)

\* The invocations of the model: a batch, the numbers of its update_item
\* calls that raise, and the service keys it names (computed once).
ListenerInputs ==
    UNION {{[records |-> b, fails |-> f, keys |-> BatchKeys(b) \cap ServiceKeys] :
               f \in SUBSET (1..UpdateCount(b))} : b \in Batches}

\* An event names keys of objects that can be in the bucket: keys of URLs
\* handed out, and foreign keys.
S3Listener ==
    \E in \in ListenerInputs :
       /\ in.keys \subseteq {u.key : u \in urls}
       /\ LET r == listener_handler(in.records, in.fails)
          IN /\ table' = r.table
             /\ last' = [op |-> "s3_listener", event |-> [Records |-> in.records],
                         resp |-> r.resp, calls |-> r.calls]
             /\ UNCHANGED <<objects, urls>>

(***************************************************************************)
(* delete_images.handler                                                   *)
(***************************************************************************)

DeletePayload(u, i) ==
    [a \in (IF u = Absent THEN {} ELSE {"user_id"})
           \cup (IF i = Absent THEN {} ELSE {"image_id"}) |->
        IF a = "user_id" THEN u ELSE i]

\* event["body"] as for UploadEvents, and event["queryStringParameters"]
\* (EmptyDict also when the event has none:  ... or {}).
DeleteEvents ==
    {[kind |-> "json", payload |-> DeletePayload(u, i), qsp |-> EmptyDict] :
        u \in UserIdInputs, i \in ImageIds}
    \cup {[kind |-> "json", payload |-> DeletePayload(u, i), qsp |-> EmptyDict] :
            u \in {<<"a">>, Absent}, i \in {Absent, <<>>}}
    \cup {[kind |-> "dict", payload |-> DeletePayload(<<"a">>, <<"1">>), qsp |-> EmptyDict],
          [kind |-> "absent", payload |-> EmptyDict,
           qsp |-> DeletePayload(<<"a">>, <<"1">>)],
          [kind |-> "empty", payload |-> EmptyDict,
           qsp |-> DeletePayload(<<"a">>, <<"9">>)],
          [kind |-> "absent", payload |-> EmptyDict, qsp |-> EmptyDict]}

\* payload = json.loads(body) if isinstance(body, str) and body else (body or {});
\* if not payload: payload = event.get("queryStringParameters") or {}
BodyOrQuery(ev) ==
    LET payload == IF ev.kind \in {"json", "dict"} THEN ev.payload ELSE EmptyDict
    IN IF DOMAIN payload # {} THEN payload ELSE ev.qsp

\* _get_ddb_item answering with a bare item when the table has none.
get_ddb_item_bare(t, user_id, image_id) ==
    IF HasItem(t, user_id, image_id)
    THEN deserialize_item(t[<<user_id, image_id>>])
    ELSE [user_id |-> user_id, image_id |-> image_id]

\* _get_ddb_item: the deserialized item; EmptyDict stands for the None it
\* returns when there is no item (both are falsy, and an item is never empty).
get_ddb_item(t, user_id, image_id) ==
    IF HasItem(t, user_id, image_id)
    THEN deserialize_item(t[<<user_id, image_id>>])
    ELSE EmptyDict

\* The object key the handler settles on: s3_key, else key, else the key
\* rebuilt from the filename, else None.
DeleteKey(item, user_id, image_id) ==
    LET k == IF Truthy(Get(item, "s3_key")) THEN Get(item, "s3_key")
             ELSE Get(item, "key")
    IN IF Truthy(k) THEN k
       ELSE IF Truthy(Get(item, "filename"))
            THEN obj_key(user_id, image_id, Get(item, "filename"))
            ELSE None

\* The test with the status left out.
CallS3AnyStatus(s3_key, status) == Truthy(s3_key)

\* The test that never holds.
CallS3Never(s3_key, status) == FALSE

\* if s3_key: if status == "UPLOADED": whether delete_object is called.
CallS3(s3_key, status) == Truthy(s3_key) /\ status = "UPLOADED"

\* s3_deleted: True to begin with, the outcome of _delete_s3_object when it
\* is called, False when there is a key and the status is not UPLOADED.
S3Deleted(s3_key, status, s3_ok) ==
    IF Truthy(s3_key)
    THEN (IF CallS3(s3_key, status) THEN s3_ok ELSE FALSE)
    ELSE TRUE

\* The outcome of one invocation.  fails holds the numbers of the calls that
\* raise: get_item is call 1, delete_object call 2 when it is made, and
\* delete_item the call after.
delete_handler(ev, fails) ==
    LET payload == BodyOrQuery(ev)
        user_id == Get(payload, "user_id")
        image_id == Get(payload, "image_id")
        same == [table |-> table, objects |-> objects]
    IN IF ~Truthy(user_id) \/ ~Truthy(image_id)
       THEN [resp |-> respond(400, [error |-> "user_id and image_id are required"]),
             calls |-> <<>>] @@ same
       ELSE
       LET get_ok == 1 \notin fails
           get == [api |-> "get_item", key |-> <<user_id, image_id>>, ok |-> get_ok]
           item == get_ddb_item(table, user_id, image_id)
       IN IF ~get_ok
          THEN [resp |-> respond(500, [error |-> "DynamoDB error"]),
                calls |-> <<get>>] @@ same
          ELSE IF DOMAIN item = {}
          THEN [resp |-> respond(404, [error |-> "image not found"]),
                calls |-> <<get>>] @@ same
          ELSE
          LET s3_key == DeleteKey(item, user_id, image_id)
              status == GetOr(item, "status", "None")
              call_s3 == CallS3(s3_key, status)
              s3_ok == 2 \notin fails
              ddb_ok == (IF call_s3 THEN 3 ELSE 2) \notin fails
              s3_deleted == S3Deleted(s3_key, status, s3_ok)
              s3_calls == IF call_s3
                          THEN <<[api |-> "delete_object", bucket |-> BUCKET_NAME,
                                  key |-> s3_key, ok |-> s3_ok]>>
                          ELSE <<>>
              del == [api |-> "delete_item", key |-> <<user_id, image_id>>,
                      ok |-> ddb_ok]
          IN [resp |-> respond(200, [image_id |-> image_id,
                                     user_id |-> user_id,
                                     s3_key |-> s3_key,
                                     s3_deleted |-> s3_deleted,
                                     ddb_deleted |-> ddb_ok]),
              calls |-> <<get>> \o s3_calls \o <<del>>,
              table |-> IF ddb_ok THEN DeleteItem(table, user_id, image_id)
                        ELSE table,
              objects |-> IF call_s3 /\ s3_ok THEN objects \ {s3_key}
                          ELSE objects]

Delete ==
    \E ev \in DeleteEvents :
       \E fails \in SUBSET (1..Len(delete_handler(ev, {}).calls)) :
       LET r == delete_handler(ev, fails)
       IN /\ table' = r.table
          /\ objects' = r.objects
          /\ last' = [op |-> "delete", event |-> ev, resp |-> r.resp,
                      calls |-> r.calls]
          /\ UNCHANGED urls

(***************************************************************************)
(* Pagination token codec: JSON text, base64 and their inverses            *)
(***************************************************************************)

Printable == {Ascii[i] : i \in 1..Len(Ascii)}

\* ord(c) of a printable ASCII character.
Ord(c) == 31 + (CHOOSE i \in 1..Len(Ascii) : Ascii[i] = c)

\* JSON values.  An object is the sequence of its <<name, value>> members in
\* insertion order.
JNull == [t |-> "null"]
JBool(b) == [t |-> "bool", b |-> b]
JNum(n) == [t |-> "num", n |-> n]
JStr(s) == [t |-> "str", s |-> s]
JArr(a) == [t |-> "arr", a |-> a]
JObj(o) == [t |-> "obj", o |-> o]

\* Python truthiness of a decoded JSON value.
JTruthy(v) ==
    CASE v.t = "null" -> FALSE
      [] v.t = "bool" -> v.b
      [] v.t = "num" -> v.n # 0
      [] v.t = "str" -> v.s # <<>>
      [] v.t = "arr" -> v.a # <<>>
      [] v.t = "obj" -> v.o # <<>>

RECURSIVE Digits(_)
Digits(n) ==
    IF n < 10 THEN <<HexDigits[n + 1]>>
    ELSE Digits(n \div 10) \o <<HexDigits[(n % 10) + 1]>>

\* The JSON text of a string: quotes and backslashes escaped (the texts of
\* the model are printable ASCII).
RECURSIVE EscapeJson(_)
EscapeJson(s) ==
    IF s = <<>> THEN <<>>
    ELSE (IF s[1] = "\"" \/ s[1] = "\\" THEN <<"\\", s[1]>> ELSE <<s[1]>>)
         \o EscapeJson(Tail(s))

\* json.dumps with the default separators ", " and ": ".
RECURSIVE json_dumps(_)
RECURSIVE DumpMembers(_, _)
RECURSIVE DumpElements(_, _)
json_dumps(v) ==
    CASE v.t = "null" -> <<"n", "u", "l", "l">>
      [] v.t = "bool" -> IF v.b THEN <<"t", "r", "u", "e">> ELSE <<"f", "a", "l", "s", "e">>
      [] v.t = "num" -> IF v.n < 0 THEN <<"-">> \o Digits(0 - v.n) ELSE Digits(v.n)
      [] v.t = "str" -> <<"\"">> \o EscapeJson(v.s) \o <<"\"">>
      [] v.t = "arr" -> <<"[">> \o DumpElements(v.a, 1) \o <<"]">>
      [] v.t = "obj" -> <<"{">> \o DumpMembers(v.o, 1) \o <<"}">>

DumpMembers(o, n) ==
    IF n > Len(o) THEN <<>>
    ELSE (IF n > 1 THEN <<",", " ">> ELSE <<>>)
         \o <<"\"">> \o EscapeJson(o[n][1]) \o <<"\"", ":", " ">>
         \o json_dumps(o[n][2]) \o DumpMembers(o, n + 1)

DumpElements(a, n) ==
    IF n > Len(a) THEN <<>>
    ELSE (IF n > 1 THEN <<",", " ">> ELSE <<>>)
         \o json_dumps(a[n]) \o DumpElements(a, n + 1)

\* A parse result: ok, the value and the index after it.
ParseFail == [ok |-> FALSE, v |-> JNull, i |-> 0]
ParseOk(v, i) == [ok |-> TRUE, v |-> v, i |-> i]

IsWs(c) == c \in {" ", "0x09", "0x0A", "0x0D"}

RECURSIVE SkipWs(_, _)
SkipWs(s, i) == IF i <= Len(s) /\ IsWs(s[i]) THEN SkipWs(s, i + 1) ELSE i

IsDigit(c) == \E k \in 1..10 : HexDigits[k] = c

StartsWith(s, i, w) == i + Len(w) - 1 <= Len(s) /\ SubSeq(s, i, i + Len(w) - 1) = w

\* The characters of a string from index j (after the opening quote) up to
\* the closing quote.
RECURSIVE ScanString(_, _, _)
ScanString(s, j, acc) ==
    IF j > Len(s) THEN ParseFail
    ELSE IF s[j] = "\"" THEN ParseOk(JStr(acc), j + 1)
    ELSE IF s[j] = "\\"
         THEN IF j + 1 > Len(s) THEN ParseFail
              ELSE IF s[j + 1] \in {"\"", "\\", "/"}
                   THEN ScanString(s, j + 2, Append(acc, s[j + 1]))
              ELSE IF s[j + 1] \in {"b", "f", "n", "r", "t"}
                   THEN ScanString(s, j + 2, Append(acc,
                          ByteChar(CASE s[j + 1] = "b" -> 8 [] s[j + 1] = "f" -> 12
                                     [] s[j + 1] = "n" -> 10 [] s[j + 1] = "r" -> 13
                                     [] s[j + 1] = "t" -> 9)))
              ELSE IF s[j + 1] = "u" /\ j + 5 <= Len(s)
                      /\ \A k \in 2..5 : IsHex(s[j + k])
                   THEN ScanString(s, j + 6, Append(acc,
                          ByteChar(4096 * HexVal(s[j + 2]) + 256 * HexVal(s[j + 3])
                                   + 16 * HexVal(s[j + 4]) + HexVal(s[j + 5]))))
              ELSE ParseFail
    ELSE IF s[j] \notin Printable THEN ParseFail
    ELSE ScanString(s, j + 1, Append(acc, s[j]))

\* The digits of an integer from index j on; n is the value so far.
RECURSIVE ScanDigits(_, _, _)
ScanDigits(s, j, n) ==
    IF j <= Len(s) /\ IsDigit(s[j])
    THEN ScanDigits(s, j + 1, 10 * n + HexVal(s[j]))
    ELSE [n |-> n, i |-> j]

\* An integer literal at index i (fractions and exponents are not among the
\* texts of the model).
ParseNumber(s, i) ==
    LET neg == s[i] = "-"
        j == IF neg THEN i + 1 ELSE i
    IN IF j > Len(s) \/ ~IsDigit(s[j]) THEN ParseFail
       ELSE LET d == IF s[j] = "0" THEN [n |-> 0, i |-> j + 1]
                     ELSE ScanDigits(s, j, 0)
            IN IF d.i <= Len(s) /\ s[d.i] \in {".", "e", "E"} THEN ParseFail
               ELSE ParseOk(JNum(IF neg THEN 0 - d.n ELSE d.n), d.i)

RECURSIVE ParseValue(_, _)
RECURSIVE ParseMembers(_, _, _)
RECURSIVE ParseElements(_, _, _)

\* The JSON value that starts at or after index i, whitespace skipped.
ParseValue(s, i) ==
    LET j == SkipWs(s, i)
    IN IF j > Len(s) THEN ParseFail
       ELSE CASE s[j] = "{" ->
                   (LET k == SkipWs(s, j + 1)
                    IN IF k <= Len(s) /\ s[k] = "}" THEN ParseOk(JObj(<<>>), k + 1)
                       ELSE ParseMembers(s, k, <<>>))
              [] s[j] = "[" ->
                   (LET k == SkipWs(s, j + 1)
                    IN IF k <= Len(s) /\ s[k] = "]" THEN ParseOk(JArr(<<>>), k + 1)
                       ELSE ParseElements(s, k, <<>>))
              [] s[j] = "\"" -> ScanString(s, j + 1, <<>>)
              [] s[j] = "-" \/ IsDigit(s[j]) -> ParseNumber(s, j)
              [] StartsWith(s, j, <<"n", "u", "l", "l">>) -> ParseOk(JNull, j + 4)
              [] StartsWith(s, j, <<"t", "r", "u", "e">>) -> ParseOk(JBool(TRUE), j + 4)
              [] StartsWith(s, j, <<"f", "a", "l", "s", "e">>) -> ParseOk(JBool(FALSE), j + 5)
              [] OTHER -> ParseFail

\* The members of an object from index i (at a member name) to its brace.
ParseMembers(s, i, acc) ==
    IF i > Len(s) \/ s[i] # "\"" THEN ParseFail
    ELSE LET name == ScanString(s, i + 1, <<>>)
         IN IF ~name.ok THEN ParseFail
            ELSE LET c == SkipWs(s, name.i)
                 IN IF c > Len(s) \/ s[c] # ":" THEN ParseFail
                    ELSE LET val == ParseValue(s, c + 1)
                         IN IF ~val.ok THEN ParseFail
                            ELSE LET e == SkipWs(s, val.i)
                                     acc2 == Append(acc, <<name.v.s, val.v>>)
                                 IN IF e > Len(s) THEN ParseFail
                                    ELSE IF s[e] = "}" THEN ParseOk(JObj(acc2), e + 1)
                                    ELSE IF s[e] = ","
                                         THEN ParseMembers(s, SkipWs(s, e + 1), acc2)
                                    ELSE ParseFail

\* The elements of an array from index i to its bracket.
ParseElements(s, i, acc) ==
    LET val == ParseValue(s, i)
    IN IF ~val.ok THEN ParseFail
       ELSE LET e == SkipWs(s, val.i)
                acc2 == Append(acc, val.v)
            IN IF e > Len(s) THEN ParseFail
               ELSE IF s[e] = "]" THEN ParseOk(JArr(acc2), e + 1)
               ELSE IF s[e] = "," THEN ParseElements(s, e + 1, acc2)
               ELSE ParseFail

\* json.loads: ok is FALSE where it raises.
json_loads(s) ==
    LET r == ParseValue(s, 1)
    IN IF r.ok /\ SkipWs(s, r.i) = Len(s) + 1 THEN r ELSE ParseFail

\* The URL-safe base64 alphabet.
B64Alphabet ==
    <<"A", "B", "C", "D", "E", "F", "G", "H", "I", "J", "K", "L", "M", "N", "O",
      "P", "Q", "R", "S", "T", "U", "V", "W", "X", "Y", "Z", "a", "b", "c", "d",
      "e", "f", "g", "h", "i", "j", "k", "l", "m", "n", "o", "p", "q", "r", "s",
      "t", "u", "v", "w", "x", "y", "z", "0", "1", "2", "3", "4", "5", "6", "7",
      "8", "9", "-", "_">>

\* The 6-bit value of a base64 character, 64 for any other character.
\* urlsafe_b64decode maps '-' and '_' to '+' and '/' and decodes those too.
B64Val(c) ==
    IF c = "+" THEN 62
    ELSE IF c = "/" THEN 63
    ELSE IF \E i \in 1..64 : B64Alphabet[i] = c
         THEN (CHOOSE i \in 1..64 : B64Alphabet[i] = c) - 1
         ELSE 64

\* base64.urlsafe_b64encode of the bytes b (numbers 0..255): every three
\* bytes give four characters, the last group padded with '='.
b64encode(b) ==
    LET n == Len(b)
        byte(i) == IF i <= n THEN b[i] ELSE 0
    IN [k \in 1..(4 * ((n + 2) \div 3)) |->
          LET g == (k - 1) \div 4
              pos == (k - 1) % 4
              b1 == byte(3 * g + 1)
              b2 == byte(3 * g + 2)
              b3 == byte(3 * g + 3)
          IN CASE pos = 0 -> B64Alphabet[(b1 \div 4) + 1]
               [] pos = 1 -> B64Alphabet[((b1 % 4) * 16 + (b2 \div 16)) + 1]
               [] pos = 2 -> IF 3 * g + 2 > n THEN "="
                             ELSE B64Alphabet[((b2 % 16) * 4 + (b3 \div 64)) + 1]
               [] pos = 3 -> IF 3 * g + 3 > n THEN "="
                             ELSE B64Alphabet[(b3 % 64) + 1]]

\* binascii.a2b_base64, not strict.  Characters outside the alphabet are
\* skipped.  A '=' met at position 2 or 3 of a quad counts as a pad, and the
\* pad that completes the quad ends the input.  Without such a pad, a quad
\* left incomplete at the end is an error (ok is FALSE).
b64decode(s) ==
    LET IsData(j) == B64Val(s[j]) < 64
        \* data characters before index i, and the last of them
        DataBefore(i) == Cardinality({j \in 1..(i - 1) : IsData(j)})
        LastData(i) ==
            LET d == {j \in 1..(i - 1) : IsData(j)}
            IN IF d = {} THEN 0 ELSE CHOOSE j \in d : \A k \in d : k <= j
        quad(i) == DataBefore(i) % 4
        pads(i) == Cardinality({j \in (LastData(i) + 1)..i : s[j] = "="})
        Stops == {i \in 1..Len(s) :
                    s[i] = "=" /\ quad(i) >= 2 /\ quad(i) + pads(i) >= 4}
        stop == IF Stops = {} THEN Len(s) + 1
                ELSE CHOOSE i \in Stops : \A k \in Stops : i <= k
        data == SelectSeq(SubSeq(s, 1, stop - 1), LAMBDA c : B64Val(c) < 64)
        n == Len(data)
        val(i) == B64Val(data[i])
    IN [ok |-> Stops # {} \/ n % 4 = 0,
        bytes |-> [k \in 1..((6 * n) \div 8) |->
                     LET bit == 8 * (k - 1)
                         idx == (bit \div 6) + 1
                         off == bit % 6
                         two == val(idx) * 64 + val(idx + 1)
                     IN CASE off = 0 -> (two \div 16) % 256
                          [] off = 2 -> (two \div 4) % 256
                          [] off = 4 -> two % 256]]

\* str.encode() of a text of printable ASCII: its bytes.
encode(s) == [i \in 1..Len(s) |-> Ord(s[i])]

\* bytes.decode(): strict UTF-8.  ok is FALSE where it raises; the byte
\* strings of the model that hold a byte of 128 or more are ill-formed.
decode(b) ==
    [ok |-> \A i \in 1..Len(b) : b[i] < 128,
     text |-> [i \in 1..Len(b) |-> ByteChar(b[i])]]

\* list_images._encode_token
encode_token(token_obj) == b64encode(encode(json_dumps(token_obj)))

\* _decode_token that never decodes.
decode_token_none(token) == ParseFail

\* list_images._decode_token: the decoded value, ok FALSE where the function
\* returns None.  A page_token that is not a str (kind "num") has no
\* encode() and raises inside the try.
decode_token(token) ==
    IF token.kind # "str" THEN ParseFail
    ELSE LET raw == b64decode(token.s)
         IN IF ~raw.ok THEN ParseFail
            ELSE LET txt == decode(raw.bytes)
                 IN IF ~txt.ok THEN ParseFail ELSE json_loads(txt.text)

(***************************************************************************)
(* DynamoDB Query                                                          *)
(***************************************************************************)

\* The page size (PAGE_SIZE of the environment, 10 when it is not set).
PAGE_SIZE == 1

\* Order of the sort key: texts compared character by character.
RECURSIVE TextLess(_, _)
TextLess(x, y) ==
    IF y = <<>> THEN FALSE
    ELSE IF x = <<>> THEN TRUE
    ELSE IF x[1] = y[1] THEN TextLess(Tail(x), Tail(y))
    ELSE Ord(x[1]) < Ord(y[1])

\* The keys of K in ascending order of the sort key.
RECURSIVE SortKeys(_)
SortKeys(K) ==
    IF K = {} THEN <<>>
    ELSE LET m == CHOOSE k \in K : \A o \in K \ {k} : TextLess(k[2], o[2])
         IN <<m>> \o SortKeys(K \ {m})

\* The continuation key of a primary key, as DynamoDB reports it.
KeyObj(user_id, image_id) ==
    JObj(<< <<<<"u", "s", "e", "r", "_", "i", "d">>, JObj(<< <<<<"S">>, JStr(user_id)>> >>)>>,
            <<<<"i", "m", "a", "g", "e", "_", "i", "d">>, JObj(<< <<<<"S">>, JStr(image_id)>> >>)>> >>)

\* Whether an ExclusiveStartKey is one the request is accepted with: a map
\* of exactly the table's key attributes to string values, in the partition
\* that is queried.  Anything else fails parameter validation or is
\* rejected as an invalid starting key.
IsStringAttr(v) ==
    v.t = "obj" /\ Len(v.o) = 1 /\ v.o[1][1] = <<"S">> /\ v.o[1][2].t = "str"

ValidStartKey(eks, user_id) ==
    /\ eks.t = "obj"
    /\ Len(eks.o) = 2
    /\ {eks.o[1][1], eks.o[2][1]} = {<<"u", "s", "e", "r", "_", "i", "d">>, <<"i", "m", "a", "g", "e", "_", "i", "d">>}
    /\ IsStringAttr(eks.o[1][2]) /\ IsStringAttr(eks.o[2][2])
    /\ \E n \in 1..2 : eks.o[n][1] = <<"u", "s", "e", "r", "_", "i", "d">> /\ eks.o[n][2].o[1][2].s = user_id

StartSortKey(eks) ==
    LET n == CHOOSE n \in 1..2 : eks.o[n][1] = <<"i", "m", "a", "g", "e", "_", "i", "d">>
    IN eks.o[n][2].o[1][2].s

\* The FilterExpression: contains(filename, :fname) AND content_type = :ctype,
\* each part present when its filter is.
PassesFilter(item, filename_filter, content_type_filter) ==
    /\ Truthy(filename_filter) =>
          "filename" \in DOMAIN item /\ Contains(item.filename.S, filename_filter)
    /\ content_type_filter # "absent" =>
          "content_type" \in DOMAIN item /\ item.content_type.S = content_type_filter

\* DDB.query: the items of the partition after the start key, at most limit
\* of them read, the filter applied to the ones read; LastEvaluatedKey is the
\* primary key of the last item read when the limit stopped the read (None
\* otherwise); the response carries it as KeyObj.
Query(t, user_id, filename_filter, content_type_filter, limit, start) ==
    LET part == {k \in DOMAIN t : k[1] = user_id}
        rest == IF start = None THEN part
                ELSE {k \in part : TextLess(start, k[2])}
        sorted == SortKeys(rest)
        read == SubSeq(sorted, 1, IF Len(sorted) < limit THEN Len(sorted) ELSE limit)
        kept == SelectSeq(read, LAMBDA k :
                    PassesFilter(t[k], filename_filter, content_type_filter))
    IN [Items |-> [i \in 1..Len(kept) |-> t[kept[i]]],
        LastEvaluatedKey |-> IF Len(read) = limit THEN read[limit] ELSE None]

(***************************************************************************)
(* list_images.handler                                                     *)
(***************************************************************************)

\* aws_clients.deserialize_items
deserialize_items(items) == [i \in 1..Len(items) |-> deserialize_item(items[i])]

\* page_token values: a str (kind "str") or a JSON number (kind "num");
\* NoToken marks a request without one.
Token(s) == [kind |-> "str", s |-> s]

NoToken == [kind |-> "absent"]

TokenTruthy(tok) == IF tok.kind = "str" THEN tok.s # <<>> ELSE tok.n # 0

\* The primary keys the table of the model can hold.
KeyUniverse == UserIdInputs \X ImageIds

\* The rows of one user a traversal pages through: at most MaxRows of them,
\* under image ids uuid4 can return.
MaxRows == 3
TraverseIds == {<<HexDigits[n + 1]>> : n \in 1..MaxRows}
TraverseKeys == {<<"a">>} \X TraverseIds

\* _encode_token of the continuation key of each primary key (the graph of
\* the function on the keys of the model, computed once).
TokenTable ==
    {<<k, encode_token(KeyObj(k[1], k[2]))>> : k \in KeyUniverse \cup TraverseKeys}

TokenOfKey ==
    [k \in KeyUniverse \cup TraverseKeys |-> (CHOOSE p \in TokenTable : p[1] = k)[2]]

TokenInputs ==
    {Token(TokenOfKey[k]) : k \in KeyUniverse} \cup
    {     Token(<<"N", "Q", "=", "=">>), Token(<<"e", "3", "0", "=">>), Token(<<"a", "b", "c", "d">>), Token(<<"a", "b">>),
     Token(<<"e", "y", "J", "h", "I", "j", "o", "g", "M", "X", "0", "=">>), [kind |-> "num", n |-> 5]}

\* _decode_token of each page token of the model, those a response can
\* carry included (computed once).
DecodedTable ==
    {<<tok, decode_token(tok)>> :
        tok \in TokenInputs \cup {Token(TokenOfKey[k]) : k \in TraverseKeys}}

DecodedToken ==
    [tok \in {p[1] : p \in DecodedTable} |->
        (CHOOSE p \in DecodedTable : p[1] = tok)[2]]

ListPayload(u, f, c, tok) ==
    [a \in (IF u = Absent THEN {} ELSE {"user_id"})
           \cup (IF f = Absent THEN {} ELSE {"filename"})
           \cup (IF c = "absent" THEN {} ELSE {"content_type"})
           \cup (IF tok.kind = "absent" THEN {} ELSE {"page_token"}) |->
        CASE a = "user_id" -> u
          [] a = "filename" -> f
          [] a = "content_type" -> c
          [] a = "page_token" -> tok]

ListEvents ==
    {[kind |-> "json", payload |-> ListPayload(<<"a">>, Absent, "absent", tok),
      qsp |-> EmptyDict] : tok \in TokenInputs}
    \cup {[kind |-> "json", payload |-> ListPayload(u, Absent, "absent", NoToken),
           qsp |-> EmptyDict] : u \in UserIdInputs}
    \cup {[kind |-> "json", payload |-> ListPayload(<<"a">>, f, c, NoToken), qsp |-> EmptyDict] :
            f \in {Absent, <<"f">>}, c \in {"absent", "image/png"}}
    \cup {[kind |-> "json", payload |-> ListPayload(Absent, Absent, "absent", NoToken),
           qsp |-> EmptyDict],
          [kind |-> "dict", payload |-> ListPayload(<<"a">>, Absent, "absent", NoToken),
           qsp |-> EmptyDict],
          [kind |-> "absent", payload |-> EmptyDict,
           qsp |-> ListPayload(<<"a">>, Absent, "absent", NoToken)],
          [kind |-> "empty", payload |-> EmptyDict, qsp |-> EmptyDict]}

\* The test with the status left out.
WantsUrlAnyStatus(obj) ==
    Truthy(IF Truthy(Get(obj, "s3_key")) THEN Get(obj, "s3_key")
           ELSE Get(obj, "key"))

\* if status == "UPLOADED" and s3_key: whether the S3 fields and a signed URL
\* are produced for a deserialized item.
WantsUrl(obj) ==
    LET s3_key == IF Truthy(Get(obj, "s3_key")) THEN Get(obj, "s3_key")
                  ELSE Get(obj, "key")
    IN GetOr(obj, "status", "None") = "UPLOADED" /\ Truthy(s3_key)

\* The output item of one deserialized item.  ok says whether
\* generate_presigned_url returns or raises.
item_out(obj, ok) ==
    LET status == GetOr(obj, "status", "None")
        s3_key == IF Truthy(Get(obj, "s3_key")) THEN Get(obj, "s3_key")
                  ELSE Get(obj, "key")
        base == [image_id |-> Get(obj, "image_id"),
                 filename |-> Get(obj, "filename"),
                 content_type |-> GetOr(obj, "content_type", "None"),
                 created_at |-> GetOr(obj, "created_at", None),
                 status |-> status]
    IN IF WantsUrl(obj)
       THEN base @@ [bucket |-> GetOr(obj, "bucket", BUCKET_NAME),
                     s3_key |-> s3_key,
                     signed_url |-> IF ok THEN <<"GET", s3_key>> ELSE None]
       ELSE base

\* The number of generate_presigned_url calls made for the first n items.
PresignCount(objs, n) == Cardinality({i \in 1..n : WantsUrl(objs[i])})

\* The response payload with the token left out when the page is empty.
response_payload_nonempty(results, last_evaluated) ==
    LET body == [items |-> results, count |-> Len(results),
                 expires_in |-> PRESIGN_EXP]
    IN IF last_evaluated # None /\ Len(results) > 0
       THEN body @@ [next_page_token |-> TokenOfKey[last_evaluated]]
       ELSE body

\* response_payload: items, count and expires_in, and next_page_token, the
\* encoded LastEvaluatedKey, when the query reported one.
response_payload(results, last_evaluated) ==
    LET body == [items |-> results, count |-> Len(results),
                 expires_in |-> PRESIGN_EXP]
    IN IF last_evaluated # None
       THEN body @@ [next_page_token |-> TokenOfKey[last_evaluated]]
       ELSE body

\* The handler from the query on.  eks is the decoded page token (a parse
\* result, ParseFail when the request has no token or _decode_token returned
\* None).  fails holds the numbers of the calls that raise for a reason of
\* their own: the query is call 1, the generate_presigned_url calls follow.
\* The query also raises when the ExclusiveStartKey it is given is not a key
\* of the table.
list_page(user_id, filename_filter, content_type_filter, eks, fails) ==
    LET use_eks == eks.ok /\ JTruthy(eks.v)
        ddb_ok == 1 \notin fails
        query_ok == ddb_ok /\ (use_eks => ValidStartKey(eks.v, user_id))
        query == [api |-> "query", user_id |-> user_id,
                  ExclusiveStartKey |-> IF use_eks THEN eks.v ELSE JNull,
                  fault |-> ~ddb_ok,
                  ok |-> query_ok]
    IN IF ~query_ok
       THEN [resp |-> respond(500, [error |-> "DynamoDB error"]),
             calls |-> <<query>>]
       ELSE
       LET resp == Query(table, user_id, filename_filter, content_type_filter,
                         PAGE_SIZE,
                         IF use_eks THEN StartSortKey(eks.v) ELSE None)
           deserialized == deserialize_items(resp.Items)
           results == [i \in 1..Len(deserialized) |->
                         item_out(deserialized[i],
                                  (PresignCount(deserialized, i) + 1) \notin fails)]
           wanted == SelectSeq(deserialized, WantsUrl)
           presigns == [i \in 1..Len(wanted) |->
                         [api |-> "generate_presigned_url",
                          method |-> "get_object",
                          key |-> IF Truthy(Get(wanted[i], "s3_key"))
                                  THEN Get(wanted[i], "s3_key")
                                  ELSE Get(wanted[i], "key"),
                          image_id |-> Get(wanted[i], "image_id"),
                          ok |-> (i + 1) \notin fails]]
       IN [resp |-> respond(200, response_payload(results, resp.LastEvaluatedKey)),
           calls |-> <<query @@ [Count |-> Len(resp.Items),
                                 LastEvaluatedKey |-> resp.LastEvaluatedKey]>>
                     \o presigns]

\* if page_token: eks = _decode_token(page_token)
start_key(payload) ==
    IF DOMAIN payload # {} /\ "page_token" \in DOMAIN payload
       /\ TokenTruthy(payload.page_token)
    THEN DecodedToken[payload.page_token]
    ELSE ParseFail

\* The outcome of one invocation.
list_handler(ev, fails) ==
    LET payload == BodyOrQuery(ev)
        user_id == Get(payload, "user_id")
    IN IF ~Truthy(user_id)
       THEN [resp |-> respond(400, [error |-> "user_id is required"]), calls |-> <<>>]
       ELSE list_page(user_id, Get(payload, "filename"),
                      GetOr(payload, "content_type", "absent"),
                      start_key(payload), fails)

List ==
    \E ev \in ListEvents :
       \E fails \in SUBSET (1..Len(list_handler(ev, {}).calls)) :
       LET r == list_handler(ev, fails)
       IN /\ last' = [op |-> "list", event |-> ev, resp |-> r.resp, calls |-> r.calls]
          /\ UNCHANGED <<table, objects, urls>>

(***************************************************************************)
(* Specification                                                           *)
(***************************************************************************)

Init ==
    /\ table = EmptyDict
    /\ objects = {}
    /\ urls = {}
    /\ last = [op |-> "init"]

Next ==
    \/ Upload
    \/ ClientPut
    \/ S3Listener
    \/ Delete
    \/ List

Spec == Init /\ [][Next]_vars

\* The table is durable and outlives the deployed handlers: the delete and
\* list handlers provide for rows without s3_key (a "key" attribute, a key
\* rebuilt from the filename, no key at all).  LegacyTable holds a row
\* without any of them, not yet uploaded, when the handlers start.
LegacyItem(user_id, image_id) ==
    [user_id |-> [S |-> user_id], image_id |-> [S |-> image_id],
     status |-> [S |-> "PENDING_UPLOAD"]]

LegacyTable == PutItem(EmptyDict, LegacyItem(<<"a">>, <<"9">>))

InitLegacy ==
    /\ table = LegacyTable
    /\ objects = {}
    /\ urls = {}
    /\ last = [op |-> "init"]

SpecLegacy == InitLegacy /\ [][Next]_vars

(***************************************************************************)
(* The item key codec on its own: the upload handler's key of a            *)
(* (user_id, image_id, filename), then _parse_s3_key of that key.          *)
(***************************************************************************)

\* Longest user_id and image_id of the codec inputs.
CodecLen == 3

\* Texts of at most n characters over the alphabet A.
RECURSIVE TextsUpTo(_, _)
TextsUpTo(A, n) ==
    IF n = 0 THEN {<<>>}
    ELSE LET shorter == TextsUpTo(A, n - 1)
         IN shorter \cup {Append(t, c) : t \in {r \in shorter : Len(r) = n - 1}, c \in A}

\* user_id and image_id may hold '+', a '%' escape and the separators.
CodecUserIds == TextsUpTo({"+", "%", "2", "/"}, CodecLen)
CodecImageIds == TextsUpTo({"+", "%", "2", "_"}, CodecLen)
CodecFilenames == {<<"f">>, <<"_", "/">>, <<"2", "2">>}

InitCodec ==
    /\ table = EmptyDict
    /\ objects = {}
    /\ urls = {}
    /\ last \in {[op |-> "input", user_id |-> u, image_id |-> i, filename |-> f] :
                   u \in CodecUserIds, i \in CodecImageIds, f \in CodecFilenames}

Encode ==
    /\ last.op = "input"
    /\ last' = [op |-> "encoded", user_id |-> last.user_id,
                image_id |-> last.image_id, filename |-> last.filename,
                key |-> obj_key(last.user_id, last.image_id, last.filename)]
    /\ UNCHANGED <<table, objects, urls>>

Decode ==
    /\ last.op = "encoded"
    /\ last' = [op |-> "decoded", user_id |-> last.user_id,
                image_id |-> last.image_id, filename |-> last.filename,
                key |-> last.key, parsed |-> parse_s3_key(last.key)]
    /\ UNCHANGED <<table, objects, urls>>

NextCodec ==
    \/ Encode
    \/ Decode

SpecCodec == InitCodec /\ [][NextCodec]_vars

(***************************************************************************)
(* A client paging through the list of user "a" on a table nothing else    *)
(* writes to: a request without page_token, then requests that pass back   *)
(* the next_page_token of the response before, with the same filters.      *)
(***************************************************************************)

\* A row of the table as the handlers leave it: written by an upload and
\* not yet uploaded, written by an upload (under another filename and the
\* default content type) and marked UPLOADED by the listener, or created by
\* the listener's update.
TraverseRow(kind, user_id, image_id) ==
    CASE kind = "pending" ->
            UploadItem(user_id, image_id, <<"f", "_">>, "image/png",
                       CHOOSE now \in Times : TRUE)
      [] kind = "uploaded" ->
            SetAttr(UploadItem(user_id, image_id, <<"g">>, "application/octet-stream",
                               CHOOSE now \in Times : TRUE),
                    "status", [S |-> "UPLOADED"])
      [] kind = "upserted" ->
            [user_id |-> [S |-> user_id], image_id |-> [S |-> image_id],
             status |-> [S |-> "UPLOADED"]]

\* The tables of a traversal: any rows of user "a" under TraverseIds, and a
\* row of another user.
TraverseTables ==
    {[k \in {<<<<"a">>, i>> : i \in {j \in TraverseIds : rows[j] # "none"}}
             \cup {<<<<"b", "/">>, <<"1">>>>} |->
         IF k[1] = <<"a">> THEN TraverseRow(rows[k[2]], k[1], k[2])
         ELSE TraverseRow("pending", k[1], k[2])] :
       rows \in [TraverseIds -> {"none", "pending", "uploaded", "upserted"}]}

InitTraverse ==
    /\ table \in TraverseTables
    /\ objects = {}
    /\ urls = {}
    /\ last \in {[op |-> "traverse", filename |-> f, content_type |-> c] :
                   f \in {Absent, <<"f">>}, c \in {"absent", "image/png"}}

\* The image ids of the items of a list response, in order.
ItemIds(resp) == [i \in 1..Len(resp.body.items) |-> resp.body.items[i].image_id]

\* One request of the traversal and its answer: resumed is the
\* LastEvaluatedKey the query before reported (None for the first request),
\* seen the image ids of the items of all pages so far.
PageRequest(tok, resumed, seen, requests) ==
    LET ev == [kind |-> "json",
               payload |-> ListPayload(<<"a">>, last.filename, last.content_type, tok),
               qsp |-> EmptyDict]
        r == list_handler(ev, {})
    IN /\ last' = [op |-> "page", filename |-> last.filename,
                   content_type |-> last.content_type, event |-> ev,
                   resp |-> r.resp, calls |-> r.calls, resumed |-> resumed,
                   seen |-> seen \o ItemIds(r.resp), requests |-> requests + 1]
       /\ UNCHANGED <<table, objects, urls>>

FirstPage ==
    /\ last.op = "traverse"
    /\ PageRequest(NoToken, None, <<>>, 0)

NextPage ==
    /\ last.op = "page"
    /\ "next_page_token" \in DOMAIN last.resp.body
    /\ PageRequest(Token(last.resp.body.next_page_token),
                   last.calls[1].LastEvaluatedKey, last.seen, last.requests)

NextTraverse ==
    \/ FirstPage
    \/ NextPage

\* The traversal has ended: the last response carries no token.
TraversalEnded ==
    last.op = "page" /\ "next_page_token" \notin DOMAIN last.resp.body

\* The client keeps asking while a response carries a token: weak fairness
\* of NextTraverse, WF_vars(NextTraverse), with ENABLED <<NextTraverse>>_vars
\* written out (a request can be made, and changes the state, unless the
\* traversal has ended).
FairTraverse == []<>TraversalEnded \/ []<><<NextTraverse>>_vars

SpecTraverse == InitTraverse /\ [][NextTraverse]_vars /\ FairTraverse

(***************************************************************************)
(* Properties                                                              *)
(***************************************************************************)

\* The status attribute of the row under key k of table t ("None" if unset).
StatusOf(t, k) == IF "status" \in DOMAIN t[k] THEN t[k].status.S ELSE "None"

\* The row under k was written by the upload handler (it carries its key).
HasKey(t, k) == "s3_key" \in DOMAIN t[k]

\* The update_item calls of the last invocation that returned, by key.
UpdatedKeys(l) ==
    {l.calls[n].key : n \in {n \in 1..Len(l.calls) :
                               l.calls[n].api = "update_item" /\ l.calls[n].ok}}

\* The keys the processed entries of the last listener response name.
ProcessedKeys(l) ==
    LET p == l.resp.body.processed
    IN {<<p[n].user_id, p[n].image_id>> :
           n \in {n \in 1..Len(p) : "ddb_updated" \in DOMAIN p[n]}}

\* C1 (as amended): a row the upload handler creates is PENDING_UPLOAD; a
\* status changes only from PENDING_UPLOAD to UPLOADED and only in a
\* listener invocation whose update_item for that key returned; after such
\* an update the row is UPLOADED; an UPLOADED row stays UPLOADED until it is
\* deleted; a row the listener's update creates is UPLOADED from the start.
C1_StatusLifecycle ==
    [][\A k \in (DOMAIN table) \cup (DOMAIN table') :
          /\ (k \notin DOMAIN table /\ k \in DOMAIN table') =>
                \/ last'.op = "upload" /\ StatusOf(table', k) = "PENDING_UPLOAD"
                \/ /\ last'.op = "s3_listener"
                   /\ k \in UpdatedKeys(last')
                   /\ StatusOf(table', k) = "UPLOADED"
          /\ (k \in DOMAIN table /\ k \in DOMAIN table') =>
                /\ StatusOf(table, k) # StatusOf(table', k) =>
                      /\ last'.op = "s3_listener"
                      /\ k \in UpdatedKeys(last')
                      /\ StatusOf(table, k) = "PENDING_UPLOAD"
                /\ StatusOf(table, k) = "UPLOADED" => StatusOf(table', k) = "UPLOADED"
                /\ (last'.op = "s3_listener" /\ k \in UpdatedKeys(last')) =>
                      StatusOf(table', k) = "UPLOADED"
      ]_vars

\* A listener invocation has just moved a row the upload handler created
\* to UPLOADED.
C1_Witness ==
    /\ last.op = "s3_listener"
    /\ \E k \in DOMAIN table :
          /\ HasKey(table, k)
          /\ StatusOf(table, k) = "UPLOADED"
          /\ k \in UpdatedKeys(last)

\* C1 as stated: every row is PENDING_UPLOAD when it is created and
\* UPLOADED once a notification for its key has been processed, and a status
\* changes only through such a notification and never back.
C1_Original ==
    [][\A k \in (DOMAIN table) \cup (DOMAIN table') :
          /\ (k \notin DOMAIN table /\ k \in DOMAIN table') =>
                StatusOf(table', k) = "PENDING_UPLOAD"
          /\ (k \in DOMAIN table /\ k \in DOMAIN table') =>
                /\ StatusOf(table, k) # StatusOf(table', k) =>
                      last'.op = "s3_listener" /\ k \in ProcessedKeys(last')
                /\ StatusOf(table, k) = "UPLOADED" => StatusOf(table', k) = "UPLOADED"
                /\ (last'.op = "s3_listener" /\ k \in ProcessedKeys(last')) =>
                      StatusOf(table', k) = "UPLOADED"
      ]_vars

\* C2: when an upload request with non-empty user_id and filename is
\* answered 200, the table has gained exactly one row, keyed by the
\* request's user_id and the returned image_id, with status PENDING_UPLOAD,
\* and no other row has changed.
C2_UploadCreatesPending ==
    [][(last'.op = "upload" /\ last'.resp.statusCode = 200) =>
          LET payload == last'.event.payload
              k == <<Get(payload, "user_id"), last'.resp.body.image_id>>
          IN /\ Truthy(Get(payload, "user_id"))
             /\ Truthy(Get(payload, "filename"))
             /\ k \notin DOMAIN table
             /\ DOMAIN table' = (DOMAIN table) \cup {k}
             /\ StatusOf(table', k) = "PENDING_UPLOAD"
             /\ \A j \in DOMAIN table : table'[j] = table[j]
      ]_vars

\* An upload has just been answered 200 and its row is in the table.
C2_Witness ==
    /\ last.op = "upload"
    /\ last.resp.statusCode = 200
    /\ <<last.event.payload.user_id, last.resp.body.image_id>> \in DOMAIN table

\* The user_id and image_id of a delete request.
RequestKey(l) ==
    <<Get(BodyOrQuery(l.event), "user_id"), Get(BodyOrQuery(l.event), "image_id")>>

\* The numbers of the calls of the last invocation to the given API.
CallsOf(l, api) == {n \in 1..Len(l.calls) : l.calls[n].api = api}

\* C3: a delete request for a row whose status is not UPLOADED makes no
\* delete_object call and leaves the bucket alone, whether the row has a key
\* or not; once get_item has returned the row, the answer is 200 and
\* delete_item is called once for the row, which is gone exactly when that
\* call returns, as ddb_deleted reports.
C3_NoObjectDeleteUnlessUploaded ==
    [][(/\ last'.op = "delete"
        /\ HasItem(table, RequestKey(last')[1], RequestKey(last')[2])
        /\ StatusOf(table, RequestKey(last')) # "UPLOADED") =>
          LET k == RequestKey(last')
              dels == CallsOf(last', "delete_item")
          IN /\ CallsOf(last', "delete_object") = {}
             /\ objects' = objects
             /\ last'.calls[1].ok =>
                   /\ last'.resp.statusCode = 200
                   /\ Cardinality(dels) = 1
                   /\ \A n \in dels :
                         /\ last'.calls[n].key = k
                         /\ last'.calls[n].ok <=> ~HasItem(table', k[1], k[2])
                         /\ last'.resp.body.ddb_deleted = last'.calls[n].ok
      ]_vars

\* A delete of a row that has a key and is not UPLOADED has just been
\* answered: no delete_object call, s3_deleted false, row deleted.
C3_Witness ==
    /\ last.op = "delete"
    /\ last.resp.statusCode = 200
    /\ Truthy(last.resp.body.s3_key)
    /\ CallsOf(last, "delete_object") = {}
    /\ last.resp.body.s3_deleted = FALSE
    /\ last.resp.body.ddb_deleted = TRUE
    /\ ~HasItem(table, RequestKey(last)[1], RequestKey(last)[2])

\* C4 (as amended): a delete request for a row whose status is UPLOADED and
\* that has an object key makes exactly one delete_object call, with the
\* bucket and that key, and s3_deleted reports its outcome; whatever that
\* outcome, the answer is 200 and delete_item is called once for the row,
\* which is gone exactly when that call returns, as ddb_deleted reports.
C4_DeleteUploaded ==
    [][(/\ last'.op = "delete"
        /\ HasItem(table, RequestKey(last')[1], RequestKey(last')[2])
        /\ StatusOf(table, RequestKey(last')) = "UPLOADED"
        /\ HasKey(table, RequestKey(last'))
        /\ last'.calls[1].ok) =>
          LET k == RequestKey(last')
              objs == CallsOf(last', "delete_object")
              dels == CallsOf(last', "delete_item")
          IN /\ last'.resp.statusCode = 200
             /\ Cardinality(objs) = 1
             /\ \A n \in objs :
                   /\ last'.calls[n].key = table[k].s3_key.S
                   /\ last'.calls[n].bucket = BUCKET_NAME
                   /\ last'.resp.body.s3_deleted = last'.calls[n].ok
             /\ Cardinality(dels) = 1
             /\ \A n \in dels :
                   /\ last'.calls[n].key = k
                   /\ last'.calls[n].ok <=> ~HasItem(table', k[1], k[2])
                   /\ last'.resp.body.ddb_deleted = last'.calls[n].ok
      ]_vars

\* A delete of an UPLOADED row whose delete_object call failed has just
\* been answered 200 with s3_deleted false and ddb_deleted true.
C4_Witness ==
    /\ last.op = "delete"
    /\ last.resp.statusCode = 200
    /\ \E n \in CallsOf(last, "delete_object") : ~last.calls[n].ok
    /\ last.resp.body.s3_deleted = FALSE
    /\ last.resp.body.ddb_deleted = TRUE
    /\ ~HasItem(table, RequestKey(last)[1], RequestKey(last)[2])

\* C4 as stated: a delete request for any row whose status is UPLOADED makes
\* exactly one delete_object call, and the row is deleted with ddb_deleted
\* true whatever the outcome of that call.
C4_Original ==
    [][(/\ last'.op = "delete"
        /\ HasItem(table, RequestKey(last')[1], RequestKey(last')[2])
        /\ StatusOf(table, RequestKey(last')) = "UPLOADED"
        /\ last'.calls[1].ok) =>
          /\ last'.resp.statusCode = 200
          /\ Cardinality(CallsOf(last', "delete_object")) = 1
          /\ \A n \in CallsOf(last', "delete_item") :
                last'.calls[n].ok =>
                   /\ ~HasItem(table', RequestKey(last')[1], RequestKey(last')[2])
                   /\ last'.resp.body.ddb_deleted = TRUE
      ]_vars

\* C5: a delete request that finds a row whose status is not UPLOADED
\* reports s3_deleted false, also when the row has no s3_key, no key and no
\* filename.
C5_Original ==
    [][(/\ last'.op = "delete"
        /\ HasItem(table, RequestKey(last')[1], RequestKey(last')[2])
        /\ StatusOf(table, RequestKey(last')) # "UPLOADED"
        /\ last'.resp.statusCode = 200) =>
          last'.resp.body.s3_deleted = FALSE
      ]_vars

\* The keys the entries of the last listener response report on.
EntryKeys(l) ==
    LET p == l.resp.body.processed
    IN {p[n].s3_key : n \in {n \in 1..Len(p) : "s3_key" \in DOMAIN p[n]}}
       \cup {p[n].key : n \in {n \in 1..Len(p) : "key" \in DOMAIN p[n]}}

\* C6: the listener answers 200 and every nested S3 event of the batch that
\* names a key has an entry of its own in the response, whatever happened to
\* the other nested events, those of the same SQS record included.
C6_Original ==
    last.op = "s3_listener" =>
       /\ last.resp.statusCode = 200
       /\ BatchKeys(last.event.Records) \subseteq EntryKeys(last)

\* The object key of a row: s3_key, else key, else None.
RowKey(t, k) ==
    IF "s3_key" \in DOMAIN t[k] THEN t[k].s3_key.S
    ELSE IF "key" \in DOMAIN t[k] THEN t[k].key.S
    ELSE None

\* C7: in a list response every item stands for a row of the user; it has
\* bucket, s3_key and signed_url, all three, exactly when the row is
\* UPLOADED and has an object key, and none of them otherwise; for such a row
\* one presigned GET is requested for its key, and signed_url is null exactly
\* when that request failed, the item still being there in a 200 answer.
C7_SignedUrlOnlyForUploaded ==
    (last.op = "list" /\ last.resp.statusCode = 200) =>
       LET user_id == Get(BodyOrQuery(last.event), "user_id")
           items == last.resp.body.items
           extra == {"bucket", "s3_key", "signed_url"}
       IN \A i \in 1..Len(items) :
             LET k == <<user_id, items[i].image_id>>
                 signs == {n \in CallsOf(last, "generate_presigned_url") :
                             last.calls[n].image_id = items[i].image_id}
             IN /\ HasItem(table, k[1], k[2])
                /\ items[i].status = StatusOf(table, k)
                /\ IF StatusOf(table, k) = "UPLOADED" /\ Truthy(RowKey(table, k))
                   THEN /\ extra \subseteq DOMAIN items[i]
                        /\ items[i].s3_key = RowKey(table, k)
                        /\ Cardinality(signs) = 1
                        /\ \A n \in signs :
                              /\ last.calls[n].key = RowKey(table, k)
                              /\ last.calls[n].ok <=> items[i].signed_url # None
                   ELSE /\ extra \cap DOMAIN items[i] = {}
                        /\ signs = {}

\* A list response holds an item whose presigned GET failed: signed_url is
\* null, the answer 200.
C7_Witness ==
    /\ last.op = "list"
    /\ last.resp.statusCode = 200
    /\ \E i \in 1..Len(last.resp.body.items) :
          /\ "signed_url" \in DOMAIN last.resp.body.items[i]
          /\ last.resp.body.items[i].signed_url = None

\* C8: every row of the table has an object key, and the key decodes to the
\* row's own (user_id, image_id).
C8_Original ==
    \A k \in DOMAIN table :
       /\ HasKey(table, k)
       /\ parse_s3_key(table[k].s3_key.S) = k

\* URL-unescaping leaves the text as it is.
Unescaped(s) == unquote_plus(s) = s

\* C9 (as amended): for a user_id without '/' and an image_id without '_',
\* both left as they are by URL-unescaping (no '+', no '%' escape), and any
\* filename, decoding the key gives exactly (user_id, image_id).
C9_RoundTrip ==
    (/\ last.op = "decoded"
     /\ IndexOf(last.user_id, "/") = 0
     /\ IndexOf(last.image_id, "_") = 0
     /\ Unescaped(last.user_id)
     /\ Unescaped(last.image_id)) =>
       last.parsed = <<last.user_id, last.image_id>>

\* A key whose filename holds '_' and '/' has been decoded to the non-empty
\* user_id and image_id it was made of.
C9_Witness ==
    /\ last.op = "decoded"
    /\ last.user_id # <<>> /\ last.image_id # <<>>
    /\ IndexOf(last.filename, "_") # 0 /\ IndexOf(last.filename, "/") # 0
    /\ Unescaped(last.user_id) /\ Unescaped(last.image_id)
    /\ last.parsed = <<last.user_id, last.image_id>>

\* C9 as stated: for a user_id without '/' and an image_id without '_' and
\* any filename, decoding the key gives exactly (user_id, image_id).
C9_Original ==
    (/\ last.op = "decoded"
     /\ IndexOf(last.user_id, "/") = 0
     /\ IndexOf(last.image_id, "_") = 0) =>
       last.parsed = <<last.user_id, last.image_id>>

\* C10: a list request with a user_id is never answered 500 because of its
\* page_token: unless the query fails for a reason of its own, the answer is
\* 200.
C10_Original ==
    (last.op = "list" /\ Len(last.calls) > 0 /\ ~last.calls[1].fault) =>
       last.resp.statusCode = 200

\* C11: a list response answered 200 has next_page_token exactly when the
\* query reported a LastEvaluatedKey, and the token is that key encoded,
\* however many of the rows read passed the filters; count is the number of
\* items returned and is at most the page size.
C11_TokenIffContinuation ==
    (last.op = "list" /\ last.resp.statusCode = 200) =>
       LET body == last.resp.body
           lek == last.calls[1].LastEvaluatedKey
       IN /\ ("next_page_token" \in DOMAIN body) <=> (lek # None)
          /\ lek # None => body.next_page_token = encode_token(KeyObj(lek[1], lek[2]))
          /\ body.count = Len(body.items)
          /\ body.count <= PAGE_SIZE

\* A list response with filters has no item, the row read having failed
\* the filter, and still carries a token.
C11_Witness ==
    /\ last.op = "list"
    /\ last.resp.statusCode = 200
    /\ Truthy(Get(BodyOrQuery(last.event), "filename"))
    /\ last.resp.body.count = 0
    /\ "next_page_token" \in DOMAIN last.resp.body

\* The positions <<m, n>> of the nested S3 events of a batch that name key k.
EventsWithKey(records, k) ==
    {mn \in UNION {{<<m, n>> : n \in 1..(IF records[m].kind = "body"
                                          THEN Len(records[m].Records) ELSE 0)} :
                      m \in 1..Len(records)} :
        /\ records[mn[1]].Records[mn[2]].kind = "s3"
        /\ records[mn[1]].Records[mn[2]].key = k}

\* The entries of the last listener response that report key k as skipped.
SkippedEntries(l, k) ==
    {n \in 1..Len(l.resp.body.processed) :
        l.resp.body.processed[n] =
           [key |-> k, status |-> "skipped", reason |-> "parse_failed"]}

\* The key does not decode to a non-empty user_id and a non-empty image_id.
Unparseable(k) == ~Truthy(parse_s3_key(k)[1]) \/ ~Truthy(parse_s3_key(k)[2])

\* C12: the listener answers 200; every nested S3 event of the batch whose
\* key does not decode to a non-empty user_id and image_id has an entry
\* {key, status "skipped", reason "parse_failed"} of its own in the response,
\* and the table calls of the invocation are those of the other entries, one
\* update_item for each entry that reports ddb_updated.
C12_Original ==
    last.op = "s3_listener" =>
       /\ last.resp.statusCode = 200
       /\ \A k \in {k \in BatchKeys(last.event.Records) : Unparseable(k)} :
             Cardinality(SkippedEntries(last, k)) =
                Cardinality(EventsWithKey(last.event.Records, k))
       /\ Len(last.calls) =
             Cardinality({n \in 1..Len(last.resp.body.processed) :
                            "ddb_updated" \in DOMAIN last.resp.body.processed[n]})

\* C13: a delete request with a user_id and an image_id under which the
\* table has no row makes no delete_object and no delete_item call and
\* leaves the table and the bucket as they are; once get_item has returned,
\* the answer is 404 with the body {error: "image not found"}.
C13_DeleteMissing ==
    [][(/\ last'.op = "delete"
        /\ Truthy(RequestKey(last')[1])
        /\ Truthy(RequestKey(last')[2])
        /\ ~HasItem(table, RequestKey(last')[1], RequestKey(last')[2])) =>
          /\ CallsOf(last', "delete_object") = {}
          /\ CallsOf(last', "delete_item") = {}
          /\ table' = table
          /\ objects' = objects
          /\ CallsOf(last', "get_item") = {1}
          /\ last'.calls[1].key = RequestKey(last')
          /\ last'.calls[1].ok =>
                /\ last'.resp.statusCode = 404
                /\ last'.resp.body = [error |-> "image not found"]
      ]_vars

\* A delete has just been answered 404 while the table holds a row of the
\* same user and the bucket an object.
C13_Witness ==
    /\ last.op = "delete"
    /\ last.resp.statusCode = 404
    /\ \E k \in DOMAIN table : k[1] = RequestKey(last)[1]
    /\ objects # {}

\* The fields a request presents: those of the body object for an upload
\* (none when the body is absent or the empty string), those of the body
\* object or else of the query string for a list or delete request.
PresentedFields(l) ==
    IF l.op = "upload"
    THEN (IF l.event.kind \in {"json", "dict"} THEN l.event.payload ELSE EmptyDict)
    ELSE BodyOrQuery(l.event)

\* A field the handler requires is missing or empty in the request.
MissingRequired(l) ==
    CASE l.op = "upload" ->
            ~Truthy(Get(PresentedFields(l), "user_id"))
            \/ ~Truthy(Get(PresentedFields(l), "filename"))
      [] l.op = "list" -> ~Truthy(Get(PresentedFields(l), "user_id"))
      [] l.op = "delete" ->
            ~Truthy(Get(PresentedFields(l), "user_id"))
            \/ ~Truthy(Get(PresentedFields(l), "image_id"))
      [] OTHER -> FALSE

\* C14: an upload, list or delete request in which a required field is
\* missing or empty is answered 400 with an {error: message} body and makes
\* no table or object-store call, whether its body is absent, the empty
\* string, a JSON text or an object.
C14_Original ==
    MissingRequired(last) =>
       /\ last.resp.statusCode = 400
       /\ DOMAIN last.resp.body = {"error"}
       /\ last.calls = <<>>

\* The entries of the last listener response that report an update, in the
\* order of the update_item calls.
UpdateEntries(l) ==
    SelectSeq(l.resp.body.processed, LAMBDA e : "ddb_updated" \in DOMAIN e)

\* C15: every update_item call of a listener invocation that meets no fault
\* of its own returns, whether the table has a row under its key or not: its
\* entry reports ddb_updated true and the table then has a row under the key
\* with status UPLOADED; when there was no row (deleted before, or never
\* there) the row is the new one the update created, holding the key and
\* the status only.
C15_UpdateWithoutRecord ==
    [][last'.op = "s3_listener" =>
          /\ Len(UpdateEntries(last')) = Len(last'.calls)
          /\ \A n \in 1..Len(last'.calls) :
                LET c == last'.calls[n]
                    e == UpdateEntries(last')[n]
                IN /\ <<e.user_id, e.image_id>> = c.key
                   /\ e.ddb_updated = c.ok
                   /\ ~c.fault =>
                         /\ c.ok
                         /\ c.key \in DOMAIN table'
                         /\ StatusOf(table', c.key) = "UPLOADED"
                         /\ c.key \notin DOMAIN table =>
                               table'[c.key] = [user_id |-> [S |-> c.key[1]],
                                                image_id |-> [S |-> c.key[2]],
                                                status |-> [S |-> "UPLOADED"]]
      ]_vars

\* A notification for a key the service handed out has just been processed
\* after the record of the upload was deleted: the update reported
\* ddb_updated true and the table has a row under the key again, UPLOADED
\* and without the attributes the upload wrote.
C15_Witness ==
    /\ last.op = "s3_listener"
    /\ \E u \in urls :
          LET k == <<u.user_id, u.image_id>>
          IN /\ k \in UpdatedKeys(last)
             /\ \E n \in 1..Len(UpdateEntries(last)) :
                   /\ UpdateEntries(last)[n].s3_key = u.key
                   /\ UpdateEntries(last)[n].ddb_updated
             /\ k \in DOMAIN table
             /\ StatusOf(table, k) = "UPLOADED"
             /\ ~HasKey(table, k)

\* The image ids of the rows of user "a" that pass the filters of the
\* traversal.
Matching ==
    {k[2] : k \in {k \in DOMAIN table :
                     /\ k[1] = <<"a">>
                     /\ PassesFilter(table[k],
                                     IF last.filename = Absent THEN None ELSE last.filename,
                                     last.content_type)}}

\* C16: on a table nothing else writes to, every request of a traversal is
\* answered 200 and its query starts at exactly the LastEvaluatedKey the
\* query before reported (at the beginning for the first request), the token
\* decoding to the key it encodes; no row is returned twice and every item
\* is a matching row of the user; and the traversal ends with a response
\* without token once the pages hold every matching row of the user.
C16_Traversal ==
    /\ [](last.op = "page" =>
            /\ last.resp.statusCode = 200
            /\ last.calls[1].ExclusiveStartKey =
                  (IF last.resumed = None THEN JNull
                   ELSE KeyObj(last.resumed[1], last.resumed[2]))
            /\ "next_page_token" \in DOMAIN last.resp.body =>
                  LET d == DecodedToken[Token(last.resp.body.next_page_token)]
                      lek == last.calls[1].LastEvaluatedKey
                  IN d.ok /\ d.v = KeyObj(lek[1], lek[2])
            /\ \A i, j \in 1..Len(last.seen) : last.seen[i] = last.seen[j] => i = j
            /\ {last.seen[i] : i \in 1..Len(last.seen)} \subseteq Matching
            /\ last.requests <= MaxRows + 1)
    /\ <>(TraversalEnded /\ {last.seen[i] : i \in 1..Len(last.seen)} = Matching)

\* A traversal with a filter has ended after more than two requests: its
\* pages hold the matching rows, and the table has rows of the user that do
\* not match.
C16_Witness ==
    /\ TraversalEnded
    /\ last.requests > 2
    /\ last.filename # Absent
    /\ Len(last.seen) >= 2
    /\ {last.seen[i] : i \in 1..Len(last.seen)} = Matching
    /\ \E k \in DOMAIN table : k[1] = <<"a">> /\ k[2] \notin Matching

====
